---------------------------- MODULE Spec2Model ----------------------------
(***************************************************************************)
(* JotForm compliance dashboard (src/main.py).                             *)
(*                                                                         *)
(* Two state machines are modelled:                                        *)
(*   - the report run: compute_period_targets followed by                  *)
(*     leaderboard_with_badges, applied to bounded inputs (Spec);          *)
(*   - the pagination loop of get_submissions against a server that        *)
(*     holds a fixed list of submissions (SpecFetch).                      *)
(*                                                                         *)
(* Dates are day numbers: day 0 is Monday 2024-01-01, so d % 7 is Python's *)
(* weekday() (0 = Monday).  Percentages are kept in tenths of a percent    *)
(* (percent_complete is rounded to one decimal in the source); a mean of   *)
(* percentages is kept as an exact reduced fraction of tenths.             *)
(***************************************************************************)
EXTENDS Integers, Sequences, FiniteSets, TLC

VARIABLES
    \* ---- report run ----
    df_raw,               \* rows built by extract_row / get_all_data
    start_date, end_date, \* day numbers
    selected_forms,       \* sequence of form names
    selected_locations,   \* sequence of location names
    compliance_summary,   \* result of compute_period_targets
    leaderboard,          \* result of leaderboard_with_badges
    pc,                   \* "input" | "computed" | "ranked"
    \* ---- get_submissions ----
    server_total,         \* N: number of submissions the server holds
    offset,
    all_submissions,
    requests,             \* offsets of the requests issued so far
    fetch_pc              \* "loop" | "returned" | "raised" | "idle"

vars == <<df_raw, start_date, end_date, selected_forms, selected_locations,
          compliance_summary, leaderboard, pc,
          server_total, offset, all_submissions, requests, fetch_pc>>

reportVars == <<df_raw, start_date, end_date, selected_forms,
                selected_locations, compliance_summary, leaderboard, pc>>
fetchVars == <<server_total, offset, all_submissions, requests, fetch_pc>>

---------------------------------------------------------------------------
(* Bounds of the model *)

\* last day number of the date inputs of the period family (0 = 2024-01-01)
MaxDay == 32
\* last day number of the date inputs of the row family
RowDays == 1
\* longest raw submission list
MaxRaw == 2
\* longest selected_forms / selected_locations list of the row family
MaxSel == 2
\* longest selected_locations list of the ranking family
MaxLocs == 3
\* largest number of submissions the server holds
MaxN == 3001

---------------------------------------------------------------------------
(* Settings *)

\* Python's None, for a location and for a form without a rule
None == "<None>"

NoRule == [quota |-> 0, interval |-> None]

FORM_COMPLIANCE ==
    [f \in {"AWEstruck Arival/Departure", "Daily Huddle",
            "Valet Driver Assessment", "Key Scrub", "Lot Audit",
            "Overnight Valet", "Parking/Work Area Hazard", "Site Audit"} |->
        CASE f = "AWEstruck Arival/Departure" -> NoRule
          [] f = "Daily Huddle"               -> [quota |-> 3, interval |-> "daily"]
          [] f = "Valet Driver Assessment"    -> NoRule
          [] f = "Key Scrub"                  -> [quota |-> 3, interval |-> "daily"]
          [] f = "Lot Audit"                  -> [quota |-> 3, interval |-> "daily"]
          [] f = "Overnight Valet"            -> [quota |-> 1, interval |-> "daily"]
          [] f = "Parking/Work Area Hazard"   -> [quota |-> 1, interval |-> "weekly"]
          [] f = "Site Audit"                 -> [quota |-> 1, interval |-> "monthly"]]

FORM_NAME_TO_ID ==
    [f \in DOMAIN FORM_COMPLIANCE |->
        CASE f = "AWEstruck Arival/Departure" -> "250265807744158"
          [] f = "Daily Huddle"               -> "242047162465151"
          [] f = "Valet Driver Assessment"    -> "230053977061151"
          [] f = "Key Scrub"                  -> "242746988998184"
          [] f = "Lot Audit"                  -> "223424048202040"
          [] f = "Overnight Valet"            -> "230404704539149"
          [] f = "Parking/Work Area Hazard"   -> "233176683727163"
          [] f = "Site Audit"                 -> "222195371011142"]

FORM_ID_TO_NAME ==
    [id \in {FORM_NAME_TO_ID[f] : f \in DOMAIN FORM_COMPLIANCE} |->
        CHOOSE f \in DOMAIN FORM_COMPLIANCE : FORM_NAME_TO_ID[f] = id]

batch_size == 1000

---------------------------------------------------------------------------
(* Helpers *)

\* sequences without repetition, of length at most n, over the set S
PermSeqs(S, n) ==
    UNION {{s \in [1..k -> S] : \A i, j \in 1..k : s[i] = s[j] => i = j} :
           k \in 0..n}

\* all sequences of length at most n over S
SeqsUpTo(S, n) == UNION {[1..k -> S] : k \in 0..n}

Range(s) == {s[i] : i \in DOMAIN s}

\* the location names of the model in Python's str order (code points)
LocNames == <<"", "A", "B", "C">>

LexIndex(s) == CHOOSE i \in DOMAIN LocNames : LocNames[i] = s

\* a < b on str
StrLess(a, b) == LexIndex(a) < LexIndex(b)

RECURSIVE GCD(_, _)
GCD(a, b) == IF b = 0 THEN a ELSE GCD(b, a % b)

RECURSIVE SumSeq(_)
SumSeq(s) == IF s = <<>> THEN 0 ELSE Head(s) + SumSeq(Tail(s))

RECURSIVE Flatten(_)
Flatten(ss) == IF ss = <<>> THEN <<>> ELSE Head(ss) \o Flatten(Tail(ss))

---------------------------------------------------------------------------
(* extract_row: a submission is modelled by its form id and by the answer  *)
(* to the field named LOCATION_FIELD: NoField when the submission has no   *)
(* such field, NoAnswer when the field carries no 'answer' key.            *)
(* submitted_at is left out: no computation reads it.                      *)

LOCATION_FIELD == "location"
NoField == "<NoField>"
NoAnswer == "<NoAnswer>"

extract_row(sub, form_id, location_field) ==
    [form_id       |-> form_id,
     form_name     |-> IF form_id \in DOMAIN FORM_ID_TO_NAME
                       THEN FORM_ID_TO_NAME[form_id] ELSE form_id,
     submission_id |-> sub.id,
     location      |-> IF location_field # LOCATION_FIELD \/ sub.answer = NoField
                       THEN None
                       ELSE IF sub.answer = NoAnswer THEN "" ELSE sub.answer]

\* the rows of pd.DataFrame(all_rows) for a list of submissions
DataFrame(subs) ==
    [i \in DOMAIN subs |->
        extract_row([id |-> i, answer |-> subs[i].answer],
                    FORM_NAME_TO_ID[subs[i].form], LOCATION_FIELD)]

---------------------------------------------------------------------------
(* compute_period_targets *)

\* pd.to_datetime(d).weekday(): day 0 is a Monday
weekday(d) == d % 7

\* days in the months of 2024
MonthLen == <<31, 29, 31, 30, 31, 30, 31, 31, 30, 31, 30, 31>>

\* the month (1 = January 2024) a day number falls in
RECURSIVE MonthFrom(_, _)
MonthFrom(d, m) ==
    IF m >= Len(MonthLen) \/ d < MonthLen[m] THEN m
    ELSE MonthFrom(d - MonthLen[m], m + 1)

MonthOf(d) == MonthFrom(d, 1)

\* pd.date_range(start, end, freq='D')
date_range_D(start, end) ==
    IF end < start THEN <<>> ELSE [i \in 1..(end - start + 1) |-> start + i - 1]

\* pd.date_range(start, end, freq='W-MON'): start rolled forward to a
\* Monday, then every seventh day up to end
RECURSIVE EverySeventh(_, _)
EverySeventh(d, end) ==
    IF d > end THEN <<>> ELSE <<d>> \o EverySeventh(d + 7, end)

date_range_W_MON(start, end) ==
    EverySeventh(start + ((7 - weekday(start)) % 7), end)

\* pd.period_range(start, end, freq='M'): the ordinals of the months of
\* start and of end, and every month between
period_range_M(start, end) ==
    IF MonthOf(end) < MonthOf(start) THEN <<>>
    ELSE [i \in 1..(MonthOf(end) - MonthOf(start) + 1) |-> MonthOf(start) + i - 1]

\* Periods without the leading period of line 97
PeriodsNoLeading(interval, start, end) ==
    CASE interval = "daily"   -> date_range_D(start, end)
      [] interval = "weekly"  -> date_range_W_MON(start, end)
      [] interval = "monthly" -> period_range_M(start, end)
      [] OTHER                -> <<>>

\* lines 92-101
Periods(interval, start, end) ==
    CASE interval = "daily"   -> date_range_D(start, end)
      [] interval = "weekly"  ->
            IF weekday(start) # 0
            THEN <<start>> \o date_range_W_MON(start, end)
            ELSE date_range_W_MON(start, end)
      [] interval = "monthly" -> period_range_M(start, end)
      [] OTHER                -> <<>>

\* round(100 * actual / target, 1) in tenths of a percent.  Python rounds a
\* float half to even; a tie x.x5 needs 16 | target, and is then an exact
\* binary fraction whenever target < 2000, so the float carries no error.
RoundTenths(actual, target) ==
    LET n == 1000 * actual
        q == n \div target
        r == n % target
    IN  IF 2 * r < target THEN q
        ELSE IF 2 * r > target THEN q + 1
        ELSE IF q % 2 = 0 THEN q ELSE q + 1

\* line 107 and line 117
PercentComplete(actual, target) ==
    IF target # 0 THEN RoundTenths(actual, target) ELSE 0

\* Status with > for >=
StatusStrict(actual, target) ==
    IF actual > target THEN "Met" ELSE "Missing " \o ToString(target - actual)

\* line 108
Status(actual, target) ==
    IF actual >= target THEN "Met" ELSE "Missing " \o ToString(target - actual)

\* interval.capitalize()
Capitalize(interval) ==
    CASE interval = "daily"   -> "Daily"
      [] interval = "weekly"  -> "Weekly"
      [] interval = "monthly" -> "Monthly"
      [] OTHER                -> interval

\* sorted(S) for a set of location names
RECURSIVE SortedLocs(_)
SortedLocs(S) ==
    IF S = {} THEN <<>>
    ELSE LET m == CHOOSE x \in S : \A y \in S : ~StrLess(y, x)
         IN  <<m>> \o SortedLocs(S \ {m})

\* df_raw['location'].dropna().unique()
ObservedLocations(df) == {df[i].location : i \in DOMAIN df} \ {None}

\* line 85
AllLocations(df, locations) ==
    IF locations # <<>> THEN locations ELSE SortedLocs(ObservedLocations(df))

\* line 84
ComplianceForms(forms) ==
    SelectSeq(forms, LAMBDA f : f \in DOMAIN FORM_COMPLIANCE
                                /\ FORM_COMPLIANCE[f] # NoRule)

\* lines 104-119: one summary row
SummaryRow(df, form_name, loc, period_count) ==
    LET req    == FORM_COMPLIANCE[form_name]
        actual == Len(SelectSeq(df, LAMBDA r : r.form_name = form_name
                                               /\ r.location = loc))
        target == period_count * req.quota
    IN  [form_name        |-> form_name,
         location         |-> loc,
         interval         |-> Capitalize(req.interval),
         periods_in_range |-> period_count,
         quota_per_period |-> req.quota,
         target_total     |-> target,
         actual_total     |-> actual,
         percent_complete |-> PercentComplete(actual, target),
         status           |-> Status(actual, target)]

\* A DataFrame built from no rows has no columns: df_raw['location'] (line
\* 85) and df_raw['form_name'] (line 104) then raise KeyError.
RaisesKeyError(df, forms, locations) ==
    /\ df = <<>>
    /\ \/ locations = <<>>
       \/ ComplianceForms(forms) # <<>>

compute_period_targets(df, start, end, forms, locations) ==
    IF RaisesKeyError(df, forms, locations)
    THEN [error |-> "KeyError", rows |-> <<>>]
    ELSE LET compliance_forms == ComplianceForms(forms)
             all_locations    == AllLocations(df, locations)
             FormRows(f) ==
                LET period_count ==
                        Len(Periods(FORM_COMPLIANCE[f].interval, start, end))
                IN  [i \in DOMAIN all_locations |->
                        SummaryRow(df, f, all_locations[i], period_count)]
         IN  [error |-> "none",
              rows  |-> Flatten([k \in DOMAIN compliance_forms |->
                                    FormRows(compliance_forms[k])])]

---------------------------------------------------------------------------
(* leaderboard_with_badges *)

\* the mean of n percentages (tenths) summing to total, as a reduced fraction
Mean(total, n) ==
    LET g == GCD(total, n) IN [num |-> total \div g, den |-> n \div g]

\* a > b and a >= b on means
PctGT(a, b) == a.num * b.den > b.num * a.den
PctGE(a, b) == a.num * b.den >= b.num * a.den

\* lines 126-132: groupby('location').agg(...).reset_index(); the groups
\* come out in ascending key order, a missing key forms no group
GroupBy(rows) ==
    LET keys == SortedLocs({rows[i].location : i \in DOMAIN rows} \ {None})
        Group(l) ==
            LET g == SelectSeq(rows, LAMBDA r : r.location = l)
            IN  [location        |-> l,
                 forms_tracked   |-> Len(g),
                 total_target    |-> SumSeq([i \in DOMAIN g |-> g[i].target_total]),
                 total_actual    |-> SumSeq([i \in DOMAIN g |-> g[i].actual_total]),
                 overall_percent |->
                     Mean(SumSeq([i \in DOMAIN g |-> g[i].percent_complete]), Len(g))]
    IN  [k \in DOMAIN keys |-> Group(keys[k])]

\* InSortOrder of an ascending sort
InSortOrderAscending(a, b) == PctGE(b.overall_percent, a.overall_percent)

\* line 134: what sort_values('overall_percent', ascending=False) guarantees
\* of the order of two consecutive rows
InSortOrder(a, b) == PctGE(a.overall_percent, b.overall_percent)

\* The results sort_values can give: the default sort is not stable, so
\* rows of equal overall_percent come in any order.
SortValues(groups) ==
    {s \in [DOMAIN groups -> Range(groups)] :
        /\ \A i, j \in DOMAIN s : s[i] = s[j] => i = j
        /\ \A i \in DOMAIN s : i > 1 => InSortOrder(s[i - 1], s[i])}

\* lines 135-143, in tenths of a percent
badge_row(row) ==
    IF PctGE(row.overall_percent, [num |-> 1000, den |-> 1]) THEN "Gold Star"
    ELSE IF PctGE(row.overall_percent, [num |-> 900, den |-> 1]) THEN "Silver Star"
    ELSE IF PctGE(row.overall_percent, [num |-> 750, den |-> 1]) THEN "Bronze Star"
    ELSE "Needs Improvement"

\* Rank with method='first': the ordinal position
RankFirst(leader, i) == i

\* line 145: rank(method='min', ascending=False) of row i of the sorted
\* frame: the lowest ordinal position among the rows that tie with it
Rank(leader, i) ==
    CHOOSE j \in DOMAIN leader :
        /\ leader[j].overall_percent = leader[i].overall_percent
        /\ \A k \in DOMAIN leader :
              leader[k].overall_percent = leader[i].overall_percent => j <= k

\* line 125
EmptyColumns == <<"location", "overall_percent", "Badge", "Rank">>

\* lines 126-145
LeaderColumns ==
    <<"location", "forms_tracked", "total_target", "total_actual",
      "overall_percent", "Badge", "Rank">>

\* lines 144-146
WithBadgeAndRank(leader) ==
    [i \in DOMAIN leader |->
        [location        |-> leader[i].location,
         forms_tracked   |-> leader[i].forms_tracked,
         total_target    |-> leader[i].total_target,
         total_actual    |-> leader[i].total_actual,
         overall_percent |-> leader[i].overall_percent,
         Badge           |-> badge_row(leader[i]),
         Rank            |-> Rank(leader, i)]]

\* the results leaderboard_with_badges can return for a summary
leaderboard_with_badges(summary_rows) ==
    IF summary_rows = <<>>
    THEN {[columns |-> EmptyColumns, rows |-> <<>>]}
    ELSE {[columns |-> LeaderColumns, rows |-> WithBadgeAndRank(s)] :
            s \in SortValues(GroupBy(summary_rows))}

---------------------------------------------------------------------------
(* The report run *)

NotRun == [error |-> "not run", rows |-> <<>>]
NoLeaderboard == [columns |-> <<>>, rows |-> <<>>]

Submissions(forms, answers) == [form : forms, answer : answers]

FetchIdle ==
    /\ server_total = 0
    /\ offset = 0
    /\ all_submissions = <<>>
    /\ requests = <<>>
    /\ fetch_pc = "idle"

\* every date range up to MaxDay, one form at most, one location
InitPeriods ==
    /\ start_date \in 0..MaxDay
    /\ end_date \in 0..MaxDay
    /\ selected_forms \in PermSeqs(DOMAIN FORM_COMPLIANCE, 1)
    /\ selected_locations = <<"A">>
    /\ df_raw = DataFrame(<<[form |-> "Parking/Work Area Hazard", answer |-> "A"]>>)

\* raw data with missing and blank locations, selections in any order
InitRows ==
    /\ start_date \in 0..RowDays
    /\ end_date \in 0..RowDays
    /\ selected_forms \in
          PermSeqs({"Daily Huddle", "Parking/Work Area Hazard",
                    "Valet Driver Assessment"}, MaxSel)
    /\ selected_locations \in PermSeqs({"A", "B"}, MaxSel)
    /\ \E subs \in SeqsUpTo(Submissions({"Daily Huddle", "Parking/Work Area Hazard"},
                                        {NoField, NoAnswer, "A"}), MaxRaw) :
          df_raw = DataFrame(subs)

\* a one-day range, up to three locations that tie or differ
InitRank ==
    /\ start_date = 0
    /\ end_date = 0
    /\ selected_forms \in
          PermSeqs({"Daily Huddle", "Overnight Valet",
                    "Valet Driver Assessment"}, MaxSel)
    /\ selected_locations \in PermSeqs({"A", "B", "C"}, MaxLocs)
    /\ \E subs \in SeqsUpTo(Submissions({"Daily Huddle", "Overnight Valet"},
                                        {"A", "B"}), MaxRaw) :
          df_raw = DataFrame(subs)

Init ==
    /\ InitPeriods \/ InitRows \/ InitRank
    /\ compliance_summary = NotRun
    /\ leaderboard = NoLeaderboard
    /\ pc = "input"
    /\ FetchIdle

\* line 187
ComputePeriodTargets ==
    /\ pc = "input"
    /\ compliance_summary' =
          compute_period_targets(df_raw, start_date, end_date,
                                 selected_forms, selected_locations)
    /\ pc' = "computed"
    /\ UNCHANGED <<df_raw, start_date, end_date, selected_forms,
                   selected_locations, leaderboard>>
    /\ UNCHANGED fetchVars

\* line 188: not reached when compute_period_targets raised
LeaderboardWithBadges ==
    /\ pc = "computed"
    /\ compliance_summary.error = "none"
    /\ leaderboard' \in leaderboard_with_badges(compliance_summary.rows)
    /\ pc' = "ranked"
    /\ UNCHANGED <<df_raw, start_date, end_date, selected_forms,
                   selected_locations, compliance_summary>>
    /\ UNCHANGED fetchVars

Next == ComputePeriodTargets \/ LeaderboardWithBadges

Spec == Init /\ [][Next]_vars

---------------------------------------------------------------------------
(* get_submissions against a server holding submissions 1..server_total *)

\* the server's answer to a request: the slice [offset, offset + limit)
ServerSlice(total, off, limit) ==
    [i \in 1..(IF off >= total THEN 0
               ELSE IF off + limit <= total THEN limit ELSE total - off) |->
        off + i]

ReportIdle ==
    /\ df_raw = <<>>
    /\ start_date = 0
    /\ end_date = 0
    /\ selected_forms = <<>>
    /\ selected_locations = <<>>
    /\ compliance_summary = NotRun
    /\ leaderboard = NoLeaderboard
    /\ pc = "idle"

\* lines 30-32
InitFetch ==
    /\ server_total \in 0..MaxN
    /\ offset = 0
    /\ all_submissions = <<>>
    /\ requests = <<>>
    /\ fetch_pc = "loop"
    /\ ReportIdle

\* LastBatch with <= for <
LastBatchOrFull(submissions) == Len(submissions) <= batch_size

\* line 51
LastBatch(submissions) == Len(submissions) < batch_size

\* lines 33-53: one turn of the loop, the request answered
Request ==
    /\ fetch_pc = "loop"
    /\ LET submissions == ServerSlice(server_total, offset, batch_size)
       IN  /\ requests' = Append(requests, offset)
           /\ all_submissions' = all_submissions \o submissions
           /\ IF LastBatch(submissions)
              THEN fetch_pc' = "returned" /\ offset' = offset
              ELSE fetch_pc' = "loop" /\ offset' = offset + batch_size
    /\ UNCHANGED server_total
    /\ UNCHANGED reportVars

\* line 48: raise_for_status raises and get_submissions returns nothing
HttpError ==
    /\ fetch_pc = "loop"
    /\ requests' = Append(requests, offset)
    /\ fetch_pc' = "raised"
    /\ UNCHANGED <<server_total, offset, all_submissions>>
    /\ UNCHANGED reportVars

NextFetch == Request \/ HttpError

SpecFetch == InitFetch /\ [][NextFetch]_vars

---------------------------------------------------------------------------
(* Properties of the report run *)

\* compute_period_targets returned a summary
Computed == pc \in {"computed", "ranked"} /\ compliance_summary.error = "none"

SummaryRows == compliance_summary.rows

LeaderRows == leaderboard.rows

\* the number of distinct overall_percent values strictly above that of row i
DistinctHigher(i) ==
    Cardinality({LeaderRows[j].overall_percent : j \in
                    {k \in DOMAIN LeaderRows :
                        PctGT(LeaderRows[k].overall_percent,
                              LeaderRows[i].overall_percent)}})

\* the number of rows whose overall_percent is strictly above that of row i
RowsHigher(i) ==
    Cardinality({k \in DOMAIN LeaderRows :
                    PctGT(LeaderRows[k].overall_percent,
                          LeaderRows[i].overall_percent)})

TiesShareRank ==
    \A i, j \in DOMAIN LeaderRows :
        LeaderRows[i].overall_percent = LeaderRows[j].overall_percent
            => LeaderRows[i].Rank = LeaderRows[j].Rank

\* C1 as stated: the rank is dense. Locations with equal overall_percent
\* share a rank, and a location's rank is the number of distinct
\* overall_percent values strictly higher than its own, plus one.
C1_RankIsDense ==
    pc = "ranked" =>
        /\ TiesShareRank
        /\ \A i \in DOMAIN LeaderRows : LeaderRows[i].Rank = DistinctHigher(i) + 1

\* C1 as amended: locations with equal overall_percent share a rank, and a
\* location's rank is the number of locations whose overall_percent is
\* strictly higher than its own, plus one (ranks skip after a tie).
C1_RankIsCompetition ==
    pc = "ranked" =>
        /\ TiesShareRank
        /\ \A i \in DOMAIN LeaderRows : LeaderRows[i].Rank = RowsHigher(i) + 1

\* two locations tie for rank 1 and a third, lower one has rank 3
C1_Witness ==
    /\ pc = "ranked"
    /\ \E i, j, k \in DOMAIN LeaderRows :
          /\ i # j
          /\ LeaderRows[i].overall_percent = LeaderRows[j].overall_percent
          /\ PctGT(LeaderRows[i].overall_percent, LeaderRows[k].overall_percent)
          /\ LeaderRows[i].Rank = 1
          /\ LeaderRows[j].Rank = 1
          /\ LeaderRows[k].Rank = 3

\* C2: for an empty compliance summary the leaderboard has no rows and
\* declares the same columns as a leaderboard with rows.
C2_EmptySameColumns ==
    (pc = "ranked" /\ SummaryRows = <<>>) =>
        /\ LeaderRows = <<>>
        /\ Range(leaderboard.columns) = Range(LeaderColumns)

\* C3: every summary row's location is a member of selected_locations or,
\* when selected_locations is empty, a location observed in the raw data
\* that is neither missing nor blank.
C3_LocationSelectedOrNonBlank ==
    Computed =>
        \A i \in DOMAIN SummaryRows :
            IF selected_locations # <<>>
            THEN SummaryRows[i].location \in Range(selected_locations)
            ELSE /\ SummaryRows[i].location \in
                        {df_raw[k].location : k \in DOMAIN df_raw}
                 /\ SummaryRows[i].location \notin {None, ""}

\* the position of a form in selected_forms
FormIndex(f) == CHOOSE k \in DOMAIN selected_forms : selected_forms[k] = f

\* C4: the summary rows are ordered by form in the order of selected_forms
\* and, within a form, by location in ascending lexical order.
C4_OrderedByFormThenLocation ==
    Computed =>
        \A i, j \in DOMAIN SummaryRows :
            i < j =>
                \/ FormIndex(SummaryRows[i].form_name)
                      < FormIndex(SummaryRows[j].form_name)
                \/ /\ SummaryRows[i].form_name = SummaryRows[j].form_name
                   /\ StrLess(SummaryRows[i].location, SummaryRows[j].location)

\* C5: on an empty raw submission set compute_period_targets raises no
\* error: it returns no rows when no locations are supplied, and rows with
\* actual_total = 0 when locations are supplied.
C5_EmptyRawNoError ==
    (pc \in {"computed", "ranked"} /\ df_raw = <<>>) =>
        /\ compliance_summary.error = "none"
        /\ selected_locations = <<>> => SummaryRows = <<>>
        /\ \A i \in DOMAIN SummaryRows : SummaryRows[i].actual_total = 0

\* C6: a row's status is "Met" exactly when actual_total >= target_total;
\* otherwise it is "Missing N" with N = target_total - actual_total > 0.
C6_StatusMetIff ==
    Computed =>
        \A i \in DOMAIN SummaryRows :
            LET r == SummaryRows[i]
            IN  /\ r.status = "Met" <=> r.actual_total >= r.target_total
                /\ r.status # "Met" =>
                      /\ r.target_total - r.actual_total > 0
                      /\ r.status =
                            "Missing " \o ToString(r.target_total - r.actual_total)

\* one row meets a positive target and another misses its target
C6_Witness ==
    /\ Computed
    /\ \E i, j \in DOMAIN SummaryRows :
          /\ SummaryRows[i].status = "Met"
          /\ SummaryRows[i].target_total > 0
          /\ SummaryRows[j].status = "Missing 2"

\* C7: for a weekly form and start <= end, periods_in_range is the number
\* of Mondays in [start, end] plus one when start is not a Monday, and
\* target_total = periods_in_range * quota_per_period.
C7_WeeklyPeriods ==
    (Computed /\ start_date <= end_date) =>
        \A i \in DOMAIN SummaryRows :
            LET r == SummaryRows[i]
            IN  r.interval = "Weekly" =>
                  /\ r.periods_in_range =
                        Cardinality({d \in start_date..end_date : d % 7 = 0})
                        + (IF start_date % 7 # 0 THEN 1 ELSE 0)
                  /\ r.target_total = r.periods_in_range * r.quota_per_period

\* Wednesday 2024-01-03 to Monday 2024-01-15: January 8 and 15 and the
\* leading period
C7_Witness ==
    /\ Computed
    /\ start_date = 2
    /\ end_date = 14
    /\ \E i \in DOMAIN SummaryRows :
          /\ SummaryRows[i].interval = "Weekly"
          /\ SummaryRows[i].periods_in_range = 3
          /\ SummaryRows[i].target_total = 3

\* C8: the leaderboard has one row for each distinct location of the
\* summary, every such location in exactly one row, and its rows are in
\* non-increasing order of overall_percent.
C8_OneRowPerLocationSorted ==
    pc = "ranked" =>
        LET locs == {SummaryRows[i].location : i \in DOMAIN SummaryRows}
        IN  /\ Len(LeaderRows) = Cardinality(locs)
            /\ \A l \in locs :
                  Cardinality({i \in DOMAIN LeaderRows :
                                  LeaderRows[i].location = l}) = 1
            /\ \A i, j \in DOMAIN LeaderRows :
                  i < j => PctGE(LeaderRows[i].overall_percent,
                                 LeaderRows[j].overall_percent)

\* several summary rows per location, three locations, two of them with
\* different overall_percent
C8_Witness ==
    /\ pc = "ranked"
    /\ Len(SummaryRows) > Len(LeaderRows)
    /\ Len(LeaderRows) = 3
    /\ PctGT(LeaderRows[1].overall_percent, LeaderRows[3].overall_percent)

\* C9: when end precedes start, every row has periods_in_range = 0 and
\* target_total = 0, for every interval.
C9_ReversedRangeZero ==
    (Computed /\ end_date < start_date) =>
        \A i \in DOMAIN SummaryRows :
            /\ SummaryRows[i].periods_in_range = 0
            /\ SummaryRows[i].target_total = 0

---------------------------------------------------------------------------
(* Properties of get_submissions *)

\* C10: with every request answered, the loop ends after exactly
\* floor(N / 1000) + 1 requests, at offsets 0, 1000, 2000, ..., and returns
\* the server's N submissions once each in server order; until then it has
\* issued at most floor(N / 1000) requests.
C10_Pagination ==
    /\ fetch_pc = "loop" =>
          /\ Len(requests) <= server_total \div batch_size
          /\ offset = Len(requests) * batch_size
    /\ fetch_pc = "returned" =>
          /\ Len(requests) = server_total \div batch_size + 1
          /\ \A i \in DOMAIN requests : requests[i] = (i - 1) * batch_size
          /\ all_submissions = [i \in 1..server_total |-> i]

\* N is a multiple of 1000: the last of three requests returned no batch
C10_Witness ==
    /\ fetch_pc = "returned"
    /\ server_total = 2 * batch_size
    /\ Len(requests) = 3
    /\ Len(all_submissions) = server_total

=============================================================================
